---- MODULE Spec2Model ----
(***************************************************************************)
(* Model of timeline.transportCore (src/timeline/transport.go): the        *)
(* producer-facing point channel, the timer-driven transferDataLoop, the   *)
(* dataTransferInProgress flag with its asynchronous swaps, and Close();   *)
(* of DefaultTransportConfiguration.Validate; and of solar.SolrService      *)
(* (src/solar/solr_service.go): the interface cache and the four document  *)
(* operations with their deferred recover.                                 *)
(***************************************************************************)
EXTENDS Integers, Sequences, FiniteSets, TLC

\* ---------------------------------------------------------------- bounds
\* number of points the producers send
MaxItems == 3
\* capacity of pointChannel (DefaultTransportConfiguration.TransportBufferSize)
ChanCap == 2
\* goroutines spawned by "go atomic.SwapUint32" that have not run yet
MaxPending == 2
\* largest small value tried for a configuration field
MaxCfg == 1
\* goroutines calling the SolrService concurrently
MaxCallers == 2
\* collection names in use
MaxCollections == 2

Items == 1..MaxItems
FlagValues == {0, 1}

VARIABLES
    pc,                     \* position of the transferDataLoop goroutine
    pointChannel,           \* t.pointChannel: buffered items, head first
    closed,                 \* close(t.pointChannel) has been executed
    dataTransferInProgress, \* t.dataTransferInProgress
    pendingSwaps,           \* spawned, not yet executed swaps, per stored value
    points,                 \* the loop's local slice "points"
    inFlight,               \* TransferData calls entered and not yet returned
    enqueued,               \* history: items in the order they were sent
    batches,                \* history: arguments of the TransferData calls
    results,                \* history: TRUE = the call returned an error
    enqDuring,              \* history: <<item, call>>: item sent while that call executed
    enqAfterEmpty,          \* history: items sent after an empty cycle
    enqAfterErr,            \* history: items sent after a call returned an error
    hadEmpty,               \* history: some cycle found the buffer empty
    closeQueue,             \* history: channel content when Close() ran
    closeIdle,              \* history: Close() ran while the loop waited on the timer
    callsAtClose,           \* history: number of calls made when Close() ran
    rejected,               \* history: items whose send hit the closed channel (panic)
    hadSkip,                \* history: some cycle was skipped on the flag
    drainStart,             \* history: channel content when the latest drain began
    callsInCycle,           \* history: TransferData calls since the latest timer wake
    config,                 \* a DefaultTransportConfiguration (durations in ns)
    validated,              \* what Validate() returned on config; "none" = not called
    solrInterfaceCache,     \* ss.solrInterfaceCache: collection -> interface, 0 = no entry
    created,                \* interfaces solr.NewSolrInterface built, per collection
    cpc,                    \* position of each caller inside its SolrService call
    call,                   \* the call of each caller: arguments, locals, outcome
    hadPanic                \* history: a panic of the Solr client was recovered

vars == <<pc, pointChannel, closed, dataTransferInProgress, pendingSwaps,
          points, inFlight, enqueued, batches, results, enqDuring,
          enqAfterEmpty, enqAfterErr, hadEmpty, closeQueue, closeIdle,
          callsAtClose, rejected, hadSkip, drainStart, callsInCycle,
          config, validated, solrInterfaceCache, created, cpc, call,
          hadPanic>>

solrVars == <<solrInterfaceCache, created, cpc, call, hadPanic>>

transportVars == <<pc, pointChannel, closed, dataTransferInProgress,
                   pendingSwaps, points, inFlight, enqueued, batches, results,
                   enqDuring, enqAfterEmpty, enqAfterErr, hadEmpty, closeQueue,
                   closeIdle, callsAtClose, rejected, hadSkip, drainStart,
                   callsInCycle>>

\* what no step of the transport touches
otherVars == <<config, validated, solrInterfaceCache, created, cpc, call,
               hadPanic>>

histVars == <<enqueued, batches, results, enqDuring, enqAfterEmpty,
              enqAfterErr, hadEmpty, closeQueue, closeIdle, callsAtClose>>

cycleVars == <<rejected, hadSkip, drainStart, callsInCycle>>

\* ---------------------------------------------------------------- helpers
Range(s) == {s[k] : k \in 1..Len(s)}

PendingTotal == pendingSwaps[0] + pendingSwaps[1]

\* "go atomic.SwapUint32(&t.dataTransferInProgress, v)": only spawns the swap
SpawnSwap(v) == [pendingSwaps EXCEPT ![v] = @ + 1]

\* the skip test of the loop: t.dataTransferInProgress > 0
TransferInProgressOffByOne(flag) == flag > 1
TransferInProgress(flag) == flag > 0

\* points := []interface{}{}  (a fresh slice at the start of every cycle)
NewPointsKeep(old) == old
NewPoints(old) == <<>>

\* points = append(points, point)
PrependPoint(ps, p) == <<p>> \o ps
AppendPoint(ps, p) == Append(ps, p)

\* numPoints == 0
BatchIsEmptyNever(ps) == FALSE
BatchIsEmpty(ps) == Len(ps) = 0

\* the receive of the inner select finds nothing buffered
ChannelEmptyEarly(ch) == Len(ch) <= 1
ChannelEmpty(ch) == Len(ch) = 0

\* a send on the channel after close(t.pointChannel): the Go runtime panics
\* in the sender and the channel is left as it is
SendOnClosedAccept(ch, i) == Append(ch, i)
SendOnClosed(ch, i) == ch

\* position of the loop goroutine while t.transport.TransferData(points)
\* executes: the call is synchronous, the loop is blocked in it
TransferCallPcAsync == "clear"
TransferCallPc == "transferring"

\* ---------------------------------------------------------------- Init
TransportInit ==
    /\ pc = "idle"
    /\ pointChannel = <<>>
    /\ closed = FALSE
    /\ dataTransferInProgress = 0
    /\ pendingSwaps = [v \in FlagValues |-> 0]
    /\ points = <<>>
    /\ inFlight = 0
    /\ enqueued = <<>>
    /\ batches = <<>>
    /\ results = <<>>
    /\ enqDuring = {}
    /\ enqAfterEmpty = {}
    /\ enqAfterErr = {}
    /\ hadEmpty = FALSE
    /\ closeQueue = <<>>
    /\ closeIdle = FALSE
    /\ callsAtClose = 0
    /\ rejected = {}
    /\ hadSkip = FALSE
    /\ drainStart = <<>>
    /\ callsInCycle = 0

\* the configuration the modelled core was built with
RunningConfig ==
    [TransportBufferSize |-> ChanCap, SerializerBufferSize |-> 1,
     BatchSendInterval |-> 1, RequestTimeout |-> 1]

Callers == 1..MaxCallers
Collections == 1..MaxCollections

\* a caller that is in no call
IdleCall ==
    [op |-> "none", collection |-> 0, arg |-> <<>>, si |-> 0,
     result |-> "none", requested |-> FALSE, panicked |-> FALSE,
     afterPanic |-> FALSE]

\* NewSolrService: an empty sync.Map
SolrInit ==
    /\ solrInterfaceCache = [c \in Collections |-> 0]
    /\ created = [c \in Collections |-> 0]
    /\ cpc = [p \in Callers |-> "idle"]
    /\ call = [p \in Callers |-> IdleCall]
    /\ hadPanic = FALSE

Init ==
    /\ TransportInit
    /\ config = RunningConfig
    /\ validated = "none"
    /\ SolrInit

\* ---------------------------------------------------------------- producers
\* DataChannel() <- item: a send on the buffered channel; it blocks while the
\* buffer is full.  Item i is the i-th point the producers send.
Enqueue(i) ==
    /\ ~closed
    /\ i = Len(enqueued) + 1
    /\ Len(pointChannel) < ChanCap
    /\ pointChannel' = Append(pointChannel, i)
    /\ enqueued' = Append(enqueued, i)
    /\ enqDuring' = IF inFlight > 0 THEN enqDuring \cup {<<i, Len(batches)>>}
                    ELSE enqDuring
    /\ enqAfterEmpty' = IF hadEmpty THEN enqAfterEmpty \cup {i} ELSE enqAfterEmpty
    /\ enqAfterErr' = IF \E k \in 1..Len(results) : results[k]
                      THEN enqAfterErr \cup {i} ELSE enqAfterErr
    /\ UNCHANGED <<pc, closed, dataTransferInProgress, pendingSwaps, points,
                   inFlight, batches, results, hadEmpty, closeQueue,
                   closeIdle, callsAtClose>>
    /\ UNCHANGED cycleVars
    /\ UNCHANGED otherVars

\* DataChannel() <- item after Close(): the send panics ("send on closed
\* channel"), also for a sender that was blocked on the full buffer.  Whether
\* the producer recovers is its own business; the core is left running.
EnqueueAfterClose(i) ==
    /\ closed
    /\ i = Len(enqueued) + Cardinality(rejected) + 1
    /\ pointChannel' = SendOnClosed(pointChannel, i)
    /\ rejected' = rejected \cup {i}
    /\ UNCHANGED <<pc, closed, dataTransferInProgress, pendingSwaps, points,
                   inFlight, hadSkip, drainStart, callsInCycle>>
    /\ UNCHANGED histVars
    /\ UNCHANGED otherVars

\* transportCore.Close: close(t.pointChannel)
Close ==
    /\ ~closed
    /\ closed' = TRUE
    /\ closeQueue' = pointChannel
    /\ closeIdle' = (pc = "timer" /\ inFlight = 0)
    /\ callsAtClose' = Len(batches)
    /\ UNCHANGED <<pc, pointChannel, dataTransferInProgress, pendingSwaps,
                   points, inFlight, enqueued, batches, results, enqDuring,
                   enqAfterEmpty, enqAfterErr, hadEmpty>>
    /\ UNCHANGED cycleVars
    /\ UNCHANGED otherVars

\* transportCore.Start: go t.transferDataLoop()
Start ==
    /\ pc = "idle"
    /\ pc' = "timer"
    /\ UNCHANGED <<pointChannel, closed, dataTransferInProgress, pendingSwaps,
                   points, inFlight>>
    /\ UNCHANGED histVars
    /\ UNCHANGED cycleVars
    /\ UNCHANGED otherVars

\* ---------------------------------------------------------------- the loop
\* <-time.After(t.batchSendInterval)
TimerFire ==
    /\ pc = "timer"
    /\ pc' = "check"
    /\ callsInCycle' = 0
    /\ UNCHANGED <<pointChannel, closed, dataTransferInProgress, pendingSwaps,
                   points, inFlight, rejected, hadSkip, drainStart>>
    /\ UNCHANGED histVars
    /\ UNCHANGED otherVars

\* if t.dataTransferInProgress > 0 { ...skipping...; continue }
\* The read is a plain load racing with the spawned swaps: it yields the value
\* before or after each pending swap, which is the interleaving of this
\* action with RunSwap.
CheckSkip ==
    /\ pc = "check"
    /\ TransferInProgress(dataTransferInProgress)
    /\ pc' = "timer"
    /\ hadSkip' = TRUE
    /\ UNCHANGED <<pointChannel, closed, dataTransferInProgress, pendingSwaps,
                   points, inFlight, rejected, drainStart, callsInCycle>>
    /\ UNCHANGED histVars
    /\ UNCHANGED otherVars

CheckPass ==
    /\ pc = "check"
    /\ ~TransferInProgress(dataTransferInProgress)
    /\ pc' = "set"
    /\ UNCHANGED <<pointChannel, closed, dataTransferInProgress, pendingSwaps,
                   points, inFlight>>
    /\ UNCHANGED histVars
    /\ UNCHANGED cycleVars
    /\ UNCHANGED otherVars

\* go atomic.SwapUint32(&t.dataTransferInProgress, 1); points := []interface{}{}
SpawnSet ==
    /\ pc = "set"
    /\ PendingTotal < MaxPending
    /\ pendingSwaps' = SpawnSwap(1)
    /\ points' = NewPoints(points)
    /\ pc' = "drain"
    /\ drainStart' = pointChannel
    /\ UNCHANGED <<pointChannel, closed, dataTransferInProgress, inFlight,
                   rejected, hadSkip, callsInCycle>>
    /\ UNCHANGED histVars
    /\ UNCHANGED otherVars

\* case point, ok := <-t.pointChannel with ok: points = append(points, point)
DrainReceive ==
    /\ pc = "drain"
    /\ ~ChannelEmpty(pointChannel)
    /\ points' = AppendPoint(points, Head(pointChannel))
    /\ pointChannel' = Tail(pointChannel)
    /\ UNCHANGED <<pc, closed, dataTransferInProgress, pendingSwaps, inFlight>>
    /\ UNCHANGED histVars
    /\ UNCHANGED cycleVars
    /\ UNCHANGED otherVars

\* case point, ok := <-t.pointChannel with !ok: break outterFor
DrainClosed ==
    /\ pc = "drain"
    /\ ChannelEmpty(pointChannel)
    /\ closed
    /\ pc' = "done"
    /\ UNCHANGED <<pointChannel, closed, dataTransferInProgress, pendingSwaps,
                   points, inFlight>>
    /\ UNCHANGED histVars
    /\ UNCHANGED cycleVars
    /\ UNCHANGED otherVars

\* default: break innerLoop; numPoints = len(points);
\* if numPoints == 0 { ...buffer is empty...; continue }
DrainEmpty ==
    /\ pc = "drain"
    /\ ChannelEmpty(pointChannel)
    /\ ~closed
    /\ IF BatchIsEmpty(points)
         THEN /\ pc' = "timer"
              /\ hadEmpty' = TRUE
         ELSE /\ pc' = "call"
              /\ hadEmpty' = hadEmpty
    /\ UNCHANGED <<pointChannel, closed, dataTransferInProgress, pendingSwaps,
                   points, inFlight, enqueued, batches, results, enqDuring,
                   enqAfterEmpty, enqAfterErr, closeQueue, closeIdle,
                   callsAtClose>>
    /\ UNCHANGED cycleVars
    /\ UNCHANGED otherVars

\* err := t.transport.TransferData(points): entry into the call
CallTransfer ==
    /\ pc = "call"
    /\ inFlight' = inFlight + 1
    /\ batches' = Append(batches, points)
    /\ pc' = TransferCallPc
    /\ callsInCycle' = callsInCycle + 1
    /\ UNCHANGED <<pointChannel, closed, dataTransferInProgress, pendingSwaps,
                   points, enqueued, results, enqDuring, enqAfterEmpty,
                   enqAfterErr, hadEmpty, closeQueue, closeIdle, callsAtClose,
                   rejected, hadSkip, drainStart>>
    /\ UNCHANGED otherVars

\* TransferData returns, with or without an error; both branches only log.
\* The return resumes the caller blocked in the call.
ReturnTransfer(err) ==
    /\ inFlight > 0
    /\ inFlight' = inFlight - 1
    /\ results' = Append(results, err)
    /\ pc' = IF pc = "transferring" THEN "clear" ELSE pc
    /\ UNCHANGED <<pointChannel, closed, dataTransferInProgress, pendingSwaps,
                   points, enqueued, batches, enqDuring, enqAfterEmpty,
                   enqAfterErr, hadEmpty, closeQueue, closeIdle, callsAtClose>>
    /\ UNCHANGED cycleVars
    /\ UNCHANGED otherVars

\* go atomic.SwapUint32(&t.dataTransferInProgress, 0), then the next iteration
SpawnClear ==
    /\ pc = "clear"
    /\ PendingTotal < MaxPending
    /\ pendingSwaps' = SpawnSwap(0)
    /\ pc' = "timer"
    /\ UNCHANGED <<pointChannel, closed, dataTransferInProgress, points,
                   inFlight>>
    /\ UNCHANGED histVars
    /\ UNCHANGED cycleVars
    /\ UNCHANGED otherVars

\* a spawned goroutine runs: atomic.SwapUint32(&t.dataTransferInProgress, v).
\* The go statement orders nothing between two spawned goroutines.
RunSwap(v) ==
    /\ pendingSwaps[v] > 0
    /\ pendingSwaps' = [pendingSwaps EXCEPT ![v] = @ - 1]
    /\ dataTransferInProgress' = v
    /\ UNCHANGED <<pc, pointChannel, closed, points, inFlight>>
    /\ UNCHANGED histVars
    /\ UNCHANGED cycleVars
    /\ UNCHANGED otherVars

LoopStep ==
    \/ TimerFire
    \/ CheckSkip
    \/ CheckPass
    \/ SpawnSet
    \/ DrainReceive
    \/ DrainClosed
    \/ DrainEmpty
    \/ CallTransfer
    \/ SpawnClear

Next ==
    \/ \E i \in Items : Enqueue(i)
    \/ \E i \in Items : EnqueueAfterClose(i)
    \/ Close
    \/ Start
    \/ TimerFire
    \/ CheckSkip
    \/ CheckPass
    \/ SpawnSet
    \/ DrainReceive
    \/ DrainClosed
    \/ DrainEmpty
    \/ CallTransfer
    \/ \E err \in BOOLEAN : ReturnTransfer(err)
    \/ SpawnClear
    \/ \E v \in FlagValues : RunSwap(v)

Spec == Init /\ [][Next]_vars

\* The Go scheduler eventually runs every runnable goroutine, the timer
\* eventually fires, and every TransferData call returns.  Producers and the
\* caller of Close() are under no obligation.
Fairness ==
    /\ WF_vars(LoopStep)
    /\ WF_vars(\E err \in BOOLEAN : ReturnTransfer(err))
    /\ \A v \in FlagValues : WF_vars(RunSwap(v))

FairSpec == Spec /\ Fairness

\* ---------------------------------------------------------------- Validate
\* time.Second, in nanoseconds
NanosPerSecond == 1000000000

\* Go's integer division and remainder truncate toward zero
TruncDiv(a, b) == IF a >= 0 THEN a \div b ELSE -((-a) \div b)
TruncMod(a, b) == a - b * TruncDiv(a, b)

\* time.Duration.Seconds(): float64(d / Second) + float64(d % Second) / 1e9,
\* kept here scaled by 1e9 (a positive factor, which the comparison with 0
\* of Validate does not see)
SecondsScaled(d) ==
    TruncDiv(d, NanosPerSecond) * NanosPerSecond + TruncMod(d, NanosPerSecond)

\* DefaultTransportConfiguration.Validate: the error message, or "nil"
ValidateAcceptZero(c) ==
    IF c.TransportBufferSize < 0 THEN "invalid buffer size"
    ELSE IF c.SerializerBufferSize <= 0 THEN "invalid serializer buffer size"
    ELSE IF SecondsScaled(c.BatchSendInterval) <= 0
         THEN "invalid batch send interval"
    ELSE IF SecondsScaled(c.RequestTimeout) <= 0
         THEN "invalid request timeout interval"
    ELSE "nil"
Validate(c) ==
    IF c.TransportBufferSize <= 0 THEN "invalid buffer size"
    ELSE IF c.SerializerBufferSize <= 0 THEN "invalid serializer buffer size"
    ELSE IF SecondsScaled(c.BatchSendInterval) <= 0
         THEN "invalid batch send interval"
    ELSE IF SecondsScaled(c.RequestTimeout) <= 0
         THEN "invalid request timeout interval"
    ELSE "nil"

\* the inputs: small sizes around zero, and durations around zero and
\* beyond one second on both sides
SizeValues == (-1)..MaxCfg
DurationValues ==
    SizeValues \cup {NanosPerSecond + MaxCfg, -(NanosPerSecond + MaxCfg)}

ValidateInit ==
    /\ TransportInit
    /\ config \in [TransportBufferSize : SizeValues,
                    SerializerBufferSize : SizeValues,
                    BatchSendInterval : DurationValues,
                    RequestTimeout : DurationValues]
    /\ validated = "none"
    /\ SolrInit

\* c.Validate(): reads the four fields, writes none
RunValidate ==
    /\ validated = "none"
    /\ validated' = Validate(config)
    /\ config' = config
    /\ UNCHANGED transportVars
    /\ UNCHANGED solrVars

ValidateNext == RunValidate

ValidateSpec == ValidateInit /\ [][ValidateNext]_vars

\* ---------------------------------------------------------------- SolrService
Ops == {"AddDocument", "AddDocuments", "DeleteDocumentByID",
        "DeleteDocumentByQuery"}

\* cEmpty, and strings as sequences of characters
cEmpty == <<>>
\* a nil *solr.Document
NilDoc == "nil"

\* the argument each operation checks: doc, docs, id, query
ArgValues(op) ==
    CASE op = "AddDocument" -> {NilDoc, "doc"}
      [] op = "AddDocuments" -> {<<>>, <<"doc">>}
      [] op = "DeleteDocumentByID" -> {cEmpty, <<"7">>}
      [] op = "DeleteDocumentByQuery" -> {cEmpty, <<"*", ":", "*">>}

\* query := fmt.Sprintf("id:%s", id)
IdQuery(id) == <<"i", "d", ":">> \o id

\* the argument check at the head of each operation
ArgRejectedNoIdCheck(op, arg) ==
    CASE op = "AddDocument" -> arg = NilDoc
      [] op = "AddDocuments" -> Len(arg) = 0
      [] op = "DeleteDocumentByID" -> FALSE
      [] op = "DeleteDocumentByQuery" -> arg = cEmpty
ArgRejected(op, arg) ==
    CASE op = "AddDocument" -> arg = NilDoc
      [] op = "AddDocuments" -> Len(arg) = 0
      [] op = "DeleteDocumentByID" -> arg = cEmpty
      [] op = "DeleteDocumentByQuery" -> arg = cEmpty

\* DeleteDocumentByID passes its own check and then calls
\* DeleteDocumentByQuery with the built query, which checks again
Rejected(op, arg) ==
    \/ ArgRejected(op, arg)
    \/ /\ op = "DeleteDocumentByID"
       /\ ArgRejected("DeleteDocumentByQuery", IdQuery(arg))

\* recoverFromFailure is the deferred function itself and calls recover()
\* directly: the panic stops and the operation returns to its caller
RecoverStopsPanicNot == FALSE
RecoverStopsPanic == TRUE

\* what the caller gets when the operation panicked: with the panic recovered
\* the unnamed result keeps its zero value, nil
ResultAfterPanic == IF RecoverStopsPanic THEN "nil" ELSE "panic"

\* what the Solr client can do in a call: succeed, return an error, panic;
\* a Delete can also answer with Success = false
ClientOutcomes == {"ok", "err", "panic"}
RequestOutcomes(op) ==
    IF op \in {"DeleteDocumentByID", "DeleteDocumentByQuery"}
    THEN ClientOutcomes \cup {"unsuccessful"}
    ELSE ClientOutcomes

\* entry into an operation: defer ss.recoverFromFailure(), then the argument
\* check; a rejected argument returns the error at once
BeginCall(p, op, c, arg) ==
    /\ cpc[p] = "idle"
    /\ IF Rejected(op, arg)
         THEN /\ cpc' = [cpc EXCEPT ![p] = "returned"]
              /\ call' = [call EXCEPT ![p] =
                    [IdleCall EXCEPT !.op = op, !.collection = c, !.arg = arg,
                                     !.result = "err", !.afterPanic = hadPanic]]
         ELSE /\ cpc' = [cpc EXCEPT ![p] = "load"]
              /\ call' = [call EXCEPT ![p] =
                    [IdleCall EXCEPT !.op = op, !.collection = c, !.arg = arg,
                                     !.afterPanic = hadPanic]]
    /\ UNCHANGED <<solrInterfaceCache, created, hadPanic>>
    /\ UNCHANGED <<transportVars, config, validated>>

\* getSolrInterface: ss.solrInterfaceCache.Load(collection), found
CacheLoadHit(p) ==
    /\ cpc[p] = "load"
    /\ solrInterfaceCache[call[p].collection] # 0
    /\ call' = [call EXCEPT ![p].si = solrInterfaceCache[call[p].collection]]
    /\ cpc' = [cpc EXCEPT ![p] = "request"]
    /\ UNCHANGED <<solrInterfaceCache, created, hadPanic>>
    /\ UNCHANGED <<transportVars, config, validated>>

\* getSolrInterface: ss.solrInterfaceCache.Load(collection), not found
CacheLoadMiss(p) ==
    /\ cpc[p] = "load"
    /\ solrInterfaceCache[call[p].collection] = 0
    /\ cpc' = [cpc EXCEPT ![p] = "create"]
    /\ UNCHANGED <<solrInterfaceCache, created, call, hadPanic>>
    /\ UNCHANGED <<transportVars, config, validated>>

\* getSolrInterface after the miss: si, err := solr.NewSolrInterface(ss.url,
\* collection) and, on success, ss.solrInterfaceCache.Store(collection, si);
\* return si.  The construction touches nothing shared, so the step is taken
\* at the Store; the Load of the miss lies before it, in its own step.
NewSolrInterface(p, outcome) ==
    /\ cpc[p] = "create"
    /\ CASE outcome = "ok" ->
              /\ created' = [created EXCEPT ![call[p].collection] = @ + 1]
              /\ call' = [call EXCEPT ![p].si = created[call[p].collection] + 1]
              /\ solrInterfaceCache' =
                    [solrInterfaceCache EXCEPT ![call[p].collection] =
                         created[call[p].collection] + 1]
              /\ cpc' = [cpc EXCEPT ![p] = "request"]
         [] outcome = "err" ->
              /\ call' = [call EXCEPT ![p].result = "err"]
              /\ cpc' = [cpc EXCEPT ![p] = "returned"]
              /\ UNCHANGED <<created, solrInterfaceCache>>
         [] outcome = "panic" ->
              /\ call' = [call EXCEPT ![p].panicked = TRUE]
              /\ cpc' = [cpc EXCEPT ![p] = "panicking"]
              /\ UNCHANGED <<created, solrInterfaceCache>>
    /\ UNCHANGED hadPanic
    /\ UNCHANGED <<transportVars, config, validated>>

\* si.Add(...) / si.Delete(...) and the return statements after it
SolrRequest(p, outcome) ==
    /\ cpc[p] = "request"
    /\ outcome \in RequestOutcomes(call[p].op)
    /\ IF outcome = "panic"
         THEN /\ call' = [call EXCEPT ![p].requested = TRUE,
                                      ![p].panicked = TRUE]
              /\ cpc' = [cpc EXCEPT ![p] = "panicking"]
         ELSE /\ call' = [call EXCEPT ![p].requested = TRUE,
                                      ![p].result =
                                          IF outcome = "ok" THEN "nil" ELSE "err"]
              /\ cpc' = [cpc EXCEPT ![p] = "returned"]
    /\ UNCHANGED <<solrInterfaceCache, created, hadPanic>>
    /\ UNCHANGED <<transportVars, config, validated>>

\* the deferred ss.recoverFromFailure() runs while the operation panics.  For
\* DeleteDocumentByID the panic is recovered by the defer of the nested
\* DeleteDocumentByQuery, whose nil result DeleteDocumentByID returns.
RecoverFromFailure(p) ==
    /\ cpc[p] = "panicking"
    /\ call' = [call EXCEPT ![p].result = ResultAfterPanic]
    /\ cpc' = [cpc EXCEPT ![p] = "returned"]
    /\ hadPanic' = TRUE
    /\ UNCHANGED <<solrInterfaceCache, created>>
    /\ UNCHANGED <<transportVars, config, validated>>

\* the caller has the result; a panic that was not recovered ends the caller
FinishCall(p) ==
    /\ cpc[p] = "returned"
    /\ call[p].result # "panic"
    /\ cpc' = [cpc EXCEPT ![p] = "idle"]
    /\ call' = [call EXCEPT ![p] = IdleCall]
    /\ UNCHANGED <<solrInterfaceCache, created, hadPanic>>
    /\ UNCHANGED <<transportVars, config, validated>>

\* the steps of the callers in ps
CallerSteps(ps) ==
    \/ \E p \in ps, op \in Ops, c \in Collections :
           \E arg \in ArgValues(op) : BeginCall(p, op, c, arg)
    \/ \E p \in ps : CacheLoadHit(p)
    \/ \E p \in ps : CacheLoadMiss(p)
    \/ \E p \in ps, o \in ClientOutcomes : NewSolrInterface(p, o)
    \/ \E p \in ps, o \in ClientOutcomes \cup {"unsuccessful"} :
           SolrRequest(p, o)
    \/ \E p \in ps : RecoverFromFailure(p)
    \/ \E p \in ps : FinishCall(p)

\* the service under concurrent callers
SolrNext == CallerSteps(Callers)

SolrSpec == Init /\ [][SolrNext]_vars

\* the service called from one goroutine, one call after the other
SolrSeqNext == CallerSteps({1})

SolrSeqSpec == Init /\ [][SolrSeqNext]_vars

\* ---------------------------------------------------------------- typing
TypeOK ==
    /\ pc \in {"idle", "timer", "check", "set", "drain", "call",
               "transferring", "clear", "done"}
    /\ dataTransferInProgress \in FlagValues
    /\ PendingTotal <= MaxPending
    /\ Len(pointChannel) <= ChanCap
    /\ inFlight \in 0..1
    /\ (inFlight = 1) <=> (pc = "transferring")
    /\ Len(results) + inFlight = Len(batches)

\* ---------------------------------------------------------------- claims
\* item i has been handed to TransferData
Delivered(i) == \E b \in 1..Len(batches) : i \in Range(batches[b])

NoErrorReturned == \A k \in 1..Len(results) : ~results[k]

\* position of item i in the order of the sends
SendPos(i) == CHOOSE k \in 1..Len(enqueued) : enqueued[k] = i

\* C1: at most one TransferData call is in progress at any time.
C1_AtMostOneTransfer == inFlight <= 1

\* a slow call: the second call is executing while producers keep sending
C1_Witness ==
    /\ inFlight = 1
    /\ Len(batches) = 2
    /\ pointChannel # <<>>

\* C2: no loss.  With no error returned and every call returned, every item
\* sent before Close() is in some batch; stated for the runs in which the loop
\* has terminated, after which nothing more can be delivered.
C2_NoLoss ==
    (pc = "done" /\ inFlight = 0 /\ NoErrorReturned)
        => \A i \in Range(enqueued) : Delivered(i)

\* C3: final drain.  Close() with items queued while the loop waits on the
\* timer and no call is in progress: by the time the loop has terminated it
\* has made exactly one further call, with exactly the items queued at Close().
C3_FinalDrain ==
    (pc = "done" /\ closeIdle /\ closeQueue # <<>>)
        => /\ Len(batches) = callsAtClose + 1
           /\ batches[Len(batches)] = closeQueue

\* C4: termination.  After Close() the started loop eventually terminates,
\* and once terminated it reads no more and calls no more.
C4_Termination ==
    /\ (closed /\ pc # "idle") ~> (pc = "done")
    /\ [][pc = "done" => UNCHANGED <<pc, pointChannel, points, batches, inFlight>>]_vars

\* C5: an item sent while a call executes is not in that call's batch and,
\* unless Close() is issued, is handed to TransferData later.
C5_EnqueueDuringTransfer ==
    /\ [](\A e \in enqDuring : e[1] \notin Range(batches[e[2]]))
    /\ \A i \in Items :
          (\E e \in enqDuring : e[1] = i) ~> (Delivered(i) \/ closed)

\* C6: an item sent after an empty cycle is, unless Close() is issued,
\* eventually handed to TransferData.
C6_OperationalAfterEmpty ==
    \A i \in Items : (i \in enqAfterEmpty) ~> (Delivered(i) \/ closed)

\* C7: no item is passed to TransferData more than once, neither in two
\* batches nor twice in one batch.
C7_NoDuplication ==
    \A b1, b2 \in 1..Len(batches) :
        \A k1 \in 1..Len(batches[b1]) :
            \A k2 \in 1..Len(batches[b2]) :
                (batches[b1][k1] = batches[b2][k2]) => (b1 = b2 /\ k1 = k2)

\* two calls made, the first of which failed
C7_Witness ==
    /\ Len(batches) >= 2
    /\ Len(results) >= 1
    /\ results[1]

\* C8: TransferData is never invoked with an empty batch.
C8_NoEmptyBatch == \A b \in 1..Len(batches) : Len(batches[b]) > 0

\* a cycle found the buffer empty and the loop is back at the timer
C8_Witness ==
    /\ hadEmpty
    /\ pc = "timer"
    /\ Len(batches) >= 1

\* C9: after an error the batch is discarded (not re-queued, in no later
\* batch), the loop proceeds to the clearing of the flag as on success, and
\* items sent afterwards are, unless Close() is issued, handed to TransferData.
C9_ErrorDiscardAndContinue ==
    /\ [](\A b \in 1..Len(results) : results[b] =>
             /\ \A i \in Range(batches[b]) : i \notin Range(pointChannel)
             /\ \A c \in 1..Len(batches) :
                    c # b => Range(batches[c]) \cap Range(batches[b]) = {})
    /\ [][(\E err \in BOOLEAN : ReturnTransfer(err)) => pc' = "clear"]_vars
    /\ \A i \in Items : (i \in enqAfterErr) ~> (Delivered(i) \/ closed)

\* C10: inside every batch the items are in the order in which they were sent.
C10_BatchFIFO ==
    \A b \in 1..Len(batches) :
        \A k1, k2 \in 1..Len(batches[b]) :
            k1 < k2 => SendPos(batches[b][k1]) < SendPos(batches[b][k2])

\* a batch of two or more items has been handed over
C10_Witness == \E b \in 1..Len(batches) : Len(batches[b]) >= 2

\* C11: an item offered after Close() is not accepted: its send panics, and
\* the item is neither queued, nor drained, nor in any batch.
C11_EnqueueAfterCloseRejected ==
    \A i \in rejected :
        /\ i \notin Range(enqueued)
        /\ i \notin Range(pointChannel)
        /\ i \notin Range(points)
        /\ ~Delivered(i)

\* a send panicked after Close(), earlier items were transferred and the loop
\* has terminated
C11_Witness ==
    /\ rejected # {}
    /\ Len(batches) >= 1
    /\ pc = "done"

\* C13: while the loop waits on the timer the flag is false.  Stated for the
\* moments at which no spawned swap is still to run, so that a merely late
\* goroutine is not what refutes it.
C13_FlagClearWhenIdle ==
    (pc = "timer" /\ PendingTotal = 0) => dataTransferInProgress = 0

\* C14: from the passed check on, the flag is set while the cycle drains and
\* for the whole TransferData call.
C14_FlagSetFromCheckToReturn ==
    (pc \in {"drain", "call", "transferring"}) => dataTransferInProgress = 1

\* C15: a cycle that reads the flag set goes straight back to the timer: no
\* item leaves the queue, no call is made, the flag is left as it is and no
\* swap is spawned.
C15_SkippedCycleFrame ==
    [][(pc = "check" /\ dataTransferInProgress > 0 /\ pc' # pc)
          => /\ pc' = "timer"
             /\ UNCHANGED <<pointChannel, points, batches, inFlight,
                            dataTransferInProgress, pendingSwaps>>]_vars

\* a cycle was skipped while items were queued
C15_Witness ==
    /\ hadSkip
    /\ pc = "timer"
    /\ pointChannel # <<>>

\* C16: a cycle makes at most one call, and the batch of the call holds every
\* item that was queued when the drain began; none of them is still queued.
C16_SnapshotDrain ==
    /\ callsInCycle <= 1
    /\ (pc = "call") => Range(drainStart) \subseteq Range(points)
    /\ (pc = "transferring") =>
          /\ Range(drainStart) \subseteq Range(batches[Len(batches)])
          /\ Range(drainStart) \cap Range(pointChannel) = {}

\* a call whose batch holds the two items queued at the start of the drain
\* and one more that arrived during the drain
C16_Witness ==
    /\ pc = "transferring"
    /\ Len(drainStart) >= 2
    /\ Len(batches[Len(batches)]) > Len(drainStart)

\* the fields in the order the claim gives, with the message of each
FieldOrder ==
    <<"TransportBufferSize", "SerializerBufferSize", "BatchSendInterval",
      "RequestTimeout">>

FieldMessage ==
    [TransportBufferSize |-> "invalid buffer size",
     SerializerBufferSize |-> "invalid serializer buffer size",
     BatchSendInterval |-> "invalid batch send interval",
     RequestTimeout |-> "invalid request timeout interval"]

Violated(c) == {k \in 1..Len(FieldOrder) : c[FieldOrder[k]] <= 0}

FirstViolated(c) == CHOOSE k \in Violated(c) : \A j \in Violated(c) : k <= j

\* C12: Validate returns nil exactly when the four fields are positive,
\* otherwise the error of the first violated field in the order buffer size,
\* serializer buffer size, batch send interval, request timeout; and it leaves
\* the configuration as it was.
C12_ValidateContract ==
    [][(validated = "none" /\ validated' # "none")
          => /\ config' = config
             /\ (validated' = "nil") <=> (Violated(config) = {})
             /\ Violated(config) # {} =>
                   validated' = FieldMessage[FieldOrder[FirstViolated(config)]]]_vars

\* Validate reported the batch send interval, of more than a second below
\* zero, although the request timeout is invalid too
C12_Witness ==
    /\ validated = "invalid batch send interval"
    /\ config.BatchSendInterval < -NanosPerSecond
    /\ config.RequestTimeout <= 0

\* C17: at most one interface is built per collection, and the callers that
\* hold an interface of a collection all hold the cached one.
C17_OneInterfacePerCollection ==
    /\ \A c \in Collections : created[c] <= 1
    /\ \A p \in Callers :
          cpc[p] = "request" =>
              call[p].si = solrInterfaceCache[call[p].collection]

\* the arguments the claim calls invalid
InvalidArgument(op, arg) ==
    \/ op = "AddDocument" /\ arg = NilDoc
    \/ op = "AddDocuments" /\ arg = <<>>
    \/ op = "DeleteDocumentByID" /\ arg = cEmpty
    \/ op = "DeleteDocumentByQuery" /\ arg = cEmpty

\* C18: an operation entered with an invalid argument returns an error in
\* that very step, without a Solr request and without touching the cache.
C18_InvalidArgumentRejected ==
    [][\A p \in Callers :
          (/\ cpc[p] = "idle"
           /\ cpc'[p] # "idle"
           /\ InvalidArgument(call'[p].op, call'[p].arg))
          => /\ cpc'[p] = "returned"
             /\ call'[p].result = "err"
             /\ ~call'[p].requested
             /\ UNCHANGED <<solrInterfaceCache, created>>]_vars

\* DeleteDocumentByID with an empty id was rejected on a collection whose
\* interface is cached
C18_Witness ==
    \E p \in Callers :
        /\ cpc[p] = "returned"
        /\ call[p].op = "DeleteDocumentByID"
        /\ call[p].arg = cEmpty
        /\ call[p].result = "err"
        /\ solrInterfaceCache[call[p].collection] # 0

\* C19: an operation in which the Solr client panicked returns nil to its
\* caller, no panic reaches a caller, and the cache keeps only interfaces that
\* were built.
C19_PanicRecovered ==
    /\ \A p \in Callers :
          /\ call[p].result # "panic"
          /\ (cpc[p] = "returned" /\ call[p].panicked) => call[p].result = "nil"
    /\ \A c \in Collections : solrInterfaceCache[c] \in 0..created[c]

\* after a recovered panic a later call made its request and returned nil
C19_Witness ==
    \E p \in Callers :
        /\ cpc[p] = "returned"
        /\ call[p].afterPanic
        /\ call[p].requested
        /\ ~call[p].panicked
        /\ call[p].result = "nil"

====
